---- MODULE Spec2Model ----
(***************************************************************************)
(* A model of the turbo-tasks core: the global registry                    *)
(* (crates/turbo-tasks/src/registry.rs) and the handle read / resolution   *)
(* protocol (crates/turbo-tasks/src/raw_vc.rs) running against the         *)
(* backend primitives described in the specification, and the validation   *)
(* of font requests (crates/next-core/src/next_font_google/options.rs).    *)
(***************************************************************************)
EXTENDS Integers, FiniteSets, Sequences, TLC

(***************************************************************************)
(* Bounds of the model.                                                    *)
(***************************************************************************)
NumValues == 2
MaxIds == 2
\* the longest list of weights or of styles a font request gives
MaxMany == 2

(***************************************************************************)
(* Registry: registry.rs                                                   *)
(***************************************************************************)
\* the three lazy_static groups: FUNCTION*, VALUE_TYPE*, TRAIT_TYPE*
Kinds == {"function", "value_type", "trait_type"}
\* descriptors (&'static NativeFunction / ValueType / TraitType), by identity
Values == 1 .. NumValues
\* global names: two are enough for equal and for different names
Names == {"a", "b"}
\* threads calling register_thing concurrently
Threads == {"t1", "t2"}
\* IdFactory::new(): the first id the monotonic counter hands out
FirstId == 1

VARIABLES
    id_factory,     \* [Kinds -> Nat]: next id of *_ID_FACTORY
    store,          \* [Kinds -> [ids -> [value, name]]]: FUNCTIONS, VALUE_TYPES, TRAIT_TYPES
    map_by_name,    \* [Kinds -> [names -> id]]: *_BY_NAME
    map_by_value,   \* [Kinds -> [values -> id]]: *_BY_VALUE
    reg_pc,         \* [Threads -> position inside register_thing]
    reg_call,       \* [Threads -> the arguments and new_id of the call in progress]
    lookup,         \* the last registry call made and what it returned
    first_name,     \* history: [Kinds -> [values -> the name of the first register call]]
    names_called    \* history: [Kinds -> the names passed to register so far]

reg_vars == <<id_factory, store, map_by_name, map_by_value>>
reg_all == <<id_factory, store, map_by_name, map_by_value, reg_pc, reg_call, lookup,
             first_name, names_called>>

VARIABLES
    task_state,     \* [Tasks -> Dormant | Scheduled | Running | Done | Dirty]
    output,         \* [Tasks -> the output slot: unset, a handle or the task error]
    cell,           \* [Tasks -> cell slot 0: present, value type, payload, version]
    dirty_flag,     \* [Tasks -> the dirty-on-completion flag]
    edges,          \* [Tasks -> the dependency edges installed by the last execution]
    read_set,       \* [Readers -> the edges recorded by the reads in progress]
    src_gen,        \* the current state of the external source S reads
    fut,            \* [Readers -> the read or resolve operation in progress]
    calls,          \* history: the last backend call of the operation of the root
    started_gen,    \* history: the state of the source when the root started its operation
    prev,           \* history: the operation of the root before the current one
    executing,      \* [Tasks -> the number of workers executing the body of the task]
    task_key,       \* [Pool -> the argument fingerprint of the task key, 0: not created]
    spawned         \* history: the spawn calls made, each with its key and its handle

bk_vars ==
    <<task_state, output, cell, dirty_flag, edges, read_set, src_gen, fut, calls, started_gen,
      prev, executing, task_key, spawned>>

VARIABLES
    font_call       \* the last call of options_from_request: its arguments and its result

font_vars == <<font_call>>
vars == <<reg_all, bk_vars, font_vars>>

EmptyMap == [x \in {} |-> 0]
NoCall == [kind |-> "function", global_name |-> "a", value |-> 0, new_id |-> 0]
NoLookup ==
    [op |-> "none", kind |-> "function", value |-> 0, name |-> "a", tag |-> "none", id |-> 0]

\* the total number of ids handed out by the three factories
IdsAllocated ==
    (id_factory["function"] - FirstId) + (id_factory["value_type"] - FirstId)
        + (id_factory["trait_type"] - FirstId)

RegistryInit ==
    /\ id_factory = [k \in Kinds |-> FirstId]
    /\ store = [k \in Kinds |-> EmptyMap]
    /\ map_by_name = [k \in Kinds |-> EmptyMap]
    /\ map_by_value = [k \in Kinds |-> EmptyMap]
    /\ reg_pc = [t \in Threads |-> "idle"]
    /\ reg_call = [t \in Threads |-> NoCall]
    /\ lookup = NoLookup
    /\ first_name = [k \in Kinds |-> EmptyMap]
    /\ names_called = [k \in Kinds |-> {}]

\* the history of register calls, kept at the start of every call
NoteCall(k, global_name, value) ==
    /\ first_name' = [first_name EXCEPT ![k] =
            IF value \in DOMAIN @ THEN @ ELSE @ @@ (value :> global_name)]
    /\ names_called' = [names_called EXCEPT ![k] = @ \cup {global_name}]

is_unregistered_always(k, value) == TRUE

\* registry.rs:45  map_by_value.pin().get(&value).is_none()
is_unregistered(k, value) == value \notin DOMAIN map_by_value[k]

store_insert_late(st, new_id, value, global_name) == st

store_insert_next(st, new_id, value, global_name) ==
    st @@ ((new_id + 1) :> [value |-> value, name |-> global_name])

\* registry.rs:48-50  store.insert(*new_id, (value, global_name.to_string()))
store_insert(st, new_id, value, global_name) ==
    st @@ (new_id :> [value |-> value, name |-> global_name])

\* registry.rs:51  map_by_value.pin().insert(value, new_id)
insert_by_value(m, value, new_id) ==
    [v \in DOMAIN m \cup {value} |-> IF v = value THEN new_id ELSE m[v]]

insert_by_name_if_absent(m, global_name, new_id) ==
    [n \in DOMAIN m \cup {global_name} |-> IF n \in DOMAIN m THEN m[n] ELSE new_id]

\* registry.rs:52  map_by_name.pin().insert(global_name.to_string(), new_id)
insert_by_name(m, global_name, new_id) ==
    [n \in DOMAIN m \cup {global_name} |-> IF n = global_name THEN new_id ELSE m[n]]

\* register_thing as one call running alone (registry.rs:33-54)
register_thing(k, global_name, value) ==
    /\ value \in DOMAIN map_by_value[k] \/ IdsAllocated < MaxIds
    /\ \A t \in Threads : reg_pc[t] = "idle"
    /\ IF is_unregistered(k, value)
       THEN LET new_id == id_factory[k] IN
            /\ id_factory' = [id_factory EXCEPT ![k] = @ + 1]
            /\ store' = [store EXCEPT ![k] = store_insert(@, new_id, value, global_name)]
            /\ map_by_value' = [map_by_value EXCEPT ![k] = insert_by_value(@, value, new_id)]
            /\ map_by_name' = [map_by_name EXCEPT ![k] = insert_by_name(@, global_name, new_id)]
       ELSE UNCHANGED reg_vars
    /\ lookup' = [op |-> "register", kind |-> k, value |-> value, name |-> global_name,
                  tag |-> IF value \in DOMAIN first_name[k] THEN "again" ELSE "first",
                  id |-> 0]
    /\ NoteCall(k, global_name, value)
    /\ UNCHANGED <<reg_pc, reg_call>>

register_function(global_name, func) == register_thing("function", global_name, func)
register_value_type(global_name, ty) == register_thing("value_type", global_name, ty)
register_trait_type(global_name, ty) == register_thing("trait_type", global_name, ty)

(***************************************************************************)
(* register_thing step by step, for calls that run concurrently: the       *)
(* flurry maps and the id factory are each atomic, the call is not.        *)
(***************************************************************************)
\* registry.rs:45  the check of map_by_value
RegCheck(t, k, global_name, value) ==
    /\ reg_pc[t] = "idle"
    /\ value \in DOMAIN map_by_value[k] \/ IdsAllocated < MaxIds
    /\ IF is_unregistered(k, value)
       THEN /\ reg_pc' = [reg_pc EXCEPT ![t] = "alloc"]
            /\ reg_call' = [reg_call EXCEPT ![t] =
                    [kind |-> k, global_name |-> global_name, value |-> value, new_id |-> 0]]
       ELSE UNCHANGED <<reg_pc, reg_call>>
    /\ NoteCall(k, global_name, value)
    /\ UNCHANGED <<reg_vars, lookup>>

\* registry.rs:46  let new_id = id_factory.get()
RegAlloc(t) ==
    /\ reg_pc[t] = "alloc"
    /\ reg_call' = [reg_call EXCEPT ![t].new_id = id_factory[reg_call[t].kind]]
    /\ id_factory' = [id_factory EXCEPT ![reg_call[t].kind] = @ + 1]
    /\ reg_pc' = [reg_pc EXCEPT ![t] = "store"]
    /\ UNCHANGED <<store, map_by_name, map_by_value, lookup, first_name, names_called>>

\* registry.rs:48-50
RegStore(t) ==
    /\ reg_pc[t] = "store"
    /\ store' = [store EXCEPT ![reg_call[t].kind] =
            store_insert(@, reg_call[t].new_id, reg_call[t].value, reg_call[t].global_name)]
    /\ reg_pc' = [reg_pc EXCEPT ![t] = "by_value"]
    /\ UNCHANGED <<id_factory, map_by_name, map_by_value, reg_call, lookup,
                   first_name, names_called>>

\* registry.rs:51
RegByValue(t) ==
    /\ reg_pc[t] = "by_value"
    /\ map_by_value' = [map_by_value EXCEPT ![reg_call[t].kind] =
            insert_by_value(@, reg_call[t].value, reg_call[t].new_id)]
    /\ reg_pc' = [reg_pc EXCEPT ![t] = "by_name"]
    /\ UNCHANGED <<id_factory, store, map_by_name, reg_call, lookup,
                   first_name, names_called>>

\* registry.rs:52
RegByName(t) ==
    /\ reg_pc[t] = "by_name"
    /\ map_by_name' = [map_by_name EXCEPT ![reg_call[t].kind] =
            insert_by_name(@, reg_call[t].global_name, reg_call[t].new_id)]
    /\ reg_pc' = [reg_pc EXCEPT ![t] = "idle"]
    /\ reg_call' = [reg_call EXCEPT ![t] = NoCall]
    /\ UNCHANGED <<id_factory, store, map_by_value, lookup, first_name, names_called>>

(***************************************************************************)
(* Lookups.  Each returns [tag, id]: "ok"/"some" with the id, "none", or   *)
(* "panic".                                                                *)
(***************************************************************************)
Ret(tag, id) == [tag |-> tag, id |-> id]

\* registry.rs:56-68
get_thing_id_or_default(k, value) ==
    IF value \in DOMAIN map_by_value[k]
    THEN Ret("ok", map_by_value[k][value])
    ELSE Ret("ok", 0)

get_thing_id(k, value) ==
    IF value \in DOMAIN map_by_value[k]
    THEN Ret("ok", map_by_value[k][value])
    ELSE Ret("panic", 0)


\* registry.rs:85-87, 112-114, 139-141:  *_BY_NAME.pin().get(global_name).cloned()
get_thing_id_by_global_name(k, global_name) ==
    IF global_name \in DOMAIN map_by_name[k]
    THEN Ret("some", map_by_name[k][global_name])
    ELSE Ret("none", 0)

\* registry.rs:89-91, 116-118, 143-145:  store.get(*id).unwrap().0
\* the descriptor is returned in the id field of the result
get_thing(k, id) ==
    IF id \in DOMAIN store[k] THEN Ret("ok", store[k][id].value) ELSE Ret("panic", 0)

\* registry.rs:93-95, 120-122, 147-149:  &store.get(*id).unwrap().1
get_thing_global_name(k, id) ==
    IF id \in DOMAIN store[k] THEN Ret("ok", store[k][id].name) ELSE Ret("panic", 0)

Returned(op, k, value, name, r) ==
    [op |-> op, kind |-> k, value |-> value, name |-> name, tag |-> r.tag, id |-> r.id]

LookupId(k, value) ==
    /\ lookup' = Returned("get_thing_id", k, value, "a", get_thing_id(k, value))
    /\ UNCHANGED <<reg_vars, reg_pc, reg_call, first_name, names_called>>

LookupIdByName(k, global_name) ==
    /\ lookup' = Returned("get_thing_id_by_global_name", k, 0, global_name,
                          get_thing_id_by_global_name(k, global_name))
    /\ UNCHANGED <<reg_vars, reg_pc, reg_call, first_name, names_called>>

\* get_function / get_function_global_name (and the value type and trait type
\* variants) called with the id the last lookup returned
Describe ==
    /\ lookup.op \in {"get_thing_id", "get_thing_id_by_global_name"}
    /\ lookup.tag \in {"ok", "some"}
    /\ \E name \in BOOLEAN :
            lookup' = [lookup EXCEPT
                !.op = "get_thing",
                !.tag = IF name THEN get_thing_global_name(lookup.kind, lookup.id).tag
                        ELSE get_thing(lookup.kind, lookup.id).tag]
    /\ UNCHANGED <<reg_vars, reg_pc, reg_call, first_name, names_called>>

(***************************************************************************)
(* Handles: raw_vc.rs                                                      *)
(***************************************************************************)
\* raw_vc.rs:112-116  enum RawVc
TaskOutput(task) == [kind |-> "TaskOutput", task |-> task, index |-> 0]
TaskCell(task, index) == [kind |-> "TaskCell", task |-> task, index |-> index]

\* raw_vc.rs:261-266
is_resolved(h) == h.kind = "TaskCell"

\* raw_vc.rs:268-272
get_task_id(h) == h.task

(***************************************************************************)
(* The tasks of the model: scenario S4 of the specification (C depends on  *)
(* D depends on the source S), a task F whose output is the output of C,   *)
(* a task E whose body fails (scenario S6) and a task G whose output is    *)
(* the output of E, a task U that publishes an untyped payload, and a task *)
(* N that returns its cell 0 without having published to it, a task Q that *)
(* reads S and publishes the same payload on every run (scenario S3) with  *)
(* its reader R, a task W whose output depends on what it read from S      *)
(* (scenario S2: "its output may differ"), a task L whose output is its own *)
(* output, the tasks P1, P2 that spawn creates for the function double of   *)
(* scenario S1, and a task X that reads S and fails with a cause that      *)
(* names what it read.                                                     *)
(***************************************************************************)
Tasks == {"S", "D", "C", "F", "E", "G", "U", "N", "Q", "R", "W", "L", "P1", "P2", "X"}
\* the task ids spawn assigns, in the order it assigns them
Pool == <<"P1", "P2">>
\* the argument fingerprints double is spawned with
Args == {3, 4}
Readers == Tasks \cup {"root"}

Body ==
    [S |-> [kind |-> "source", from |-> "S"],
     D |-> [kind |-> "derive", from |-> "S"],
     C |-> [kind |-> "derive", from |-> "D"],
     F |-> [kind |-> "forward", from |-> "C"],
     E |-> [kind |-> "fail", from |-> "E"],
     G |-> [kind |-> "forward", from |-> "E"],
     U |-> [kind |-> "untyped", from |-> "U"],
     N |-> [kind |-> "empty", from |-> "N"],
     Q |-> [kind |-> "const", from |-> "S"],
     R |-> [kind |-> "derive", from |-> "Q"],
     W |-> [kind |-> "switch", from |-> "S"],
     L |-> [kind |-> "forward", from |-> "L"],
     P1 |-> [kind |-> "double", from |-> "P1"],
     P2 |-> [kind |-> "double", from |-> "P2"],
     X |-> [kind |-> "reject", from |-> "S"]]

\* the bodies that await the output of another task
Reads(t) == Body[t].kind \in {"derive", "const", "switch", "reject"}

\* the handle a switch body returns: the output of Q for the first state of
\* the source, the cell of S afterwards
SwitchTo(payload) == IF payload = 0 THEN TaskOutput("Q") ELSE TaskCell("S", 0)

\* value type ids and trait type ids handed out by the registry
ValueTypeIds == {1, 2}
TraitTypeIds == {1, 2}
\* the value type of the cell each task publishes; 0: no value-type-id tag
CellType ==
    [S |-> 1, D |-> 1, C |-> 2, F |-> 1, E |-> 1, G |-> 1, U |-> 0, N |-> 0,
     Q |-> 1, R |-> 1, W |-> 1, L |-> 1, P1 |-> 1, P2 |-> 1, X |-> 1]
\* ValueType::traits of each value type
TraitsOf == [vt \in ValueTypeIds |-> IF vt = 1 THEN {1} ELSE {1, 2}]

\* the number of changes of the external source
MaxGen == 1
\* the number of followed outputs the history of an operation counts
MaxHops == 3
\* the number of spawn calls
MaxSpawns == 3

Unset == [kind |-> "unset", task |-> "S", index |-> 0]
ErrorOutput(task) == [kind |-> "error", task |-> task, index |-> 0]
\* the failure of a rejecting body: its cause names the payload it read
RejectError(task, payload) == [kind |-> "error", task |-> task, index |-> payload + 1]
EmptyCell == [present |-> FALSE, vt |-> 0, payload |-> 0, version |-> 0]
NoResult == [tag |-> "none", vt |-> 0, payload |-> 0, handle |-> Unset]
NoFuture ==
    [mode |-> "none", status |-> "none", orig |-> Unset, current |-> Unset,
     strongly_consistent |-> FALSE, listener |-> "none", arg |-> 0,
     result |-> NoResult]
NoBackendCall ==
    [op |-> "none", task |-> "S", index |-> 0, sc |-> FALSE, ret |-> "none",
     vc |-> Unset, oks |-> 0, waited |-> FALSE]

BackendInit ==
    /\ task_state = [t \in Tasks |-> "Dormant"]
    /\ output = [t \in Tasks |-> Unset]
    /\ cell = [t \in Tasks |-> EmptyCell]
    /\ dirty_flag = [t \in Tasks |-> FALSE]
    /\ edges = [t \in Tasks |-> {}]
    /\ read_set = [r \in Readers |-> {}]
    /\ src_gen = 0
    /\ fut = [r \in Readers |-> NoFuture]
    /\ calls = NoBackendCall
    /\ started_gen = 0
    /\ prev = [mode |-> "none", orig |-> Unset, result |-> NoResult]
    /\ executing = [t \in Tasks |-> 0]
    /\ task_key = [i \in DOMAIN Pool |-> 0]
    /\ spawned = <<>>

(***************************************************************************)
(* Backend primitives (specification 4.2, 4.3).                            *)
(***************************************************************************)
Edge(kind, task, version) == [kind |-> kind, task |-> task, version |-> version]

\* the version of an output slot holding out: the output of a switch body
\* changes once, the other outputs never change once they are set
OutputVersionOf(task, out) ==
    IF out.kind = "unset" THEN 0
    ELSE IF out.kind = "error" THEN 1 + out.index
    ELSE IF Body[task].kind = "switch" /\ out = SwitchTo(1) THEN 2 ELSE 1

OutputVersion(task) == OutputVersionOf(task, output[task])

\* try_read_output(task, strongly_consistent) -> Ok(handle) | Pending(listener) | Err
try_read_task_output(task, strongly_consistent) ==
    IF task_state[task] = "Done" /\ (~strongly_consistent \/ ~dirty_flag[task])
    THEN IF output[task].kind = "error"
         THEN [ret |-> "err", vc |-> output[task]]
         ELSE [ret |-> "ok", vc |-> output[task]]
    ELSE [ret |-> "listener", vc |-> Unset]

EnqueueOnReadUnguarded(task, res) ==
    [task_state EXCEPT ![task] =
        IF res.ret = "listener" /\ @ \in {"Dormant", "Dirty", "Running"}
        THEN "Scheduled" ELSE @]

\* ... and, if Dormant/Dirty, enqueues the task
EnqueueOnRead(task, res) ==
    [task_state EXCEPT ![task] =
        IF res.ret = "listener" /\ @ \in {"Dormant", "Dirty"} THEN "Scheduled" ELSE @]

\* try_read_cell(task, index) -> Ok(content) | Pending(listener): the payload
\* if present; the slot of a task that is Done and left it empty is read as
\* empty content; else a listener
try_read_task_cell(task, index) ==
    IF cell[task].present \/ task_state[task] = "Done"
    THEN [ret |-> "ok", content |-> cell[task]]
    ELSE [ret |-> "listener", content |-> EmptyCell]

\* try_read_cell -> Err: the backend itself fails (ReadError); in the model it
\* may fail on the reads of the root
CellReadFailures(r) == IF r = "root" THEN BOOLEAN ELSE {FALSE}

\* CellContent::cast::<T>: the typed read
cast(content, T) ==
    IF content.present /\ content.vt = T
    THEN [tag |-> "content", vt |-> content.vt, payload |-> content.payload, handle |-> Unset]
    ELSE [tag |-> "cast_error", vt |-> 0, payload |-> 0, handle |-> Unset]

RecordReadNothing(r, e) == read_set

\* record_read(reader, slot, version_observed)
RecordRead(r, e) == [read_set EXCEPT ![r] = @ \cup {e}]

StaleReadersNone(task, version) == {}

\* the readers whose installed edge on cell slot (task, 0) is older than version
StaleReaders(task, version) ==
    {x \in Tasks : \E e \in edges[x] :
        e.kind = "cell" /\ e.task = task /\ e.version < version}

\* the readers whose installed edge on the output slot of task is older than version
StaleOutputReaders(task, version) ==
    {x \in Tasks : \E e \in edges[x] :
        e.kind = "output" /\ e.task = task /\ e.version < version}

\* invalidate(slot): mark the readers dirty; a Running reader gets the
\* dirty-on-completion flag
MarkDirty(states, stale) ==
    [x \in Tasks |-> IF x \in stale /\ states[x] = "Done" THEN "Dirty" ELSE states[x]]

FlagRunning(flags, stale) ==
    [x \in Tasks |-> IF x \in stale /\ task_state[x] = "Running" THEN TRUE ELSE flags[x]]

\* wake the listeners of the slots of `task`: its output slot, and its cell
\* slot when cellToo
Wake(f, task, cellToo) ==
    [r \in Readers |->
        IF /\ f[r].listener = "waiting"
           /\ f[r].current.task = task
           /\ (f[r].current.kind = "TaskOutput" \/ cellToo)
        THEN [f[r] EXCEPT !.listener = "notified"]
        ELSE f[r]]

(***************************************************************************)
(* ReadRawVcFuture: raw_vc.rs:288-375                                      *)
(***************************************************************************)
\* raw_vc.rs:297-307
new(vc, T) ==
    [mode |-> "read", status |-> "pending", orig |-> vc, current |-> vc,
     strongly_consistent |-> FALSE, listener |-> "none", arg |-> T,
     result |-> NoResult]

\* raw_vc.rs:309-319
new_strongly_consistent(vc, T) ==
    [mode |-> "strong_read", status |-> "pending", orig |-> vc, current |-> vc,
     strongly_consistent |-> TRUE, listener |-> "none", arg |-> T,
     result |-> NoResult]

poll_output_ok_keep_flag(this, vc) == [this EXCEPT !.current = vc]

poll_output_ok_no_follow(this, vc) == [this EXCEPT !.strongly_consistent = FALSE]

\* raw_vc.rs:348-352  Ok(Ok(vc))
poll_output_ok(this, vc) ==
    [this EXCEPT !.strongly_consistent = FALSE, !.current = vc]

poll_pending_lost(this) == this

\* raw_vc.rs:353, 361, 366-372  Ok(Err(listener)): the listener is kept, Pending
poll_pending(this) == [this EXCEPT !.listener = "waiting"]

poll_ready_other_payload(this, result) ==
    [this EXCEPT !.status = "ready", !.result = [result EXCEPT !.payload = @ + 1]]

\* raw_vc.rs:354, 359, 362  Poll::Ready
poll_ready(this, result) ==
    [this EXCEPT !.status = "ready", !.result = result]

TaskErrorResultNoCause(err) == [NoResult EXCEPT !.tag = "TaskError"]

\* raw_vc.rs:354  Err(err): the failure cached with the task
TaskErrorResult(err) == [NoResult EXCEPT !.tag = "TaskError", !.handle = err]

\* the history of backend calls of the root: the last call and its result, the
\* number of output reads that returned a handle before it (oks), and whether
\* a call of the operation has returned a listener (waited)
NoteOutputCall(r, task, sc, res) ==
    IF r # "root" THEN calls
    ELSE [op |-> "try_read_task_output", task |-> task, index |-> 0, sc |-> sc,
          ret |-> res.ret, vc |-> res.vc,
          oks |-> IF calls.op = "try_read_task_output" /\ calls.ret = "ok"
                        /\ calls.oks < MaxHops
                  THEN calls.oks + 1 ELSE calls.oks,
          waited |-> calls.waited \/ res.ret = "listener"]

NoteCellCall(r, task, index, res) ==
    IF r # "root" THEN calls
    ELSE [op |-> "try_read_task_cell", task |-> task, index |-> index, sc |-> FALSE,
          ret |-> res.ret, vc |-> Unset,
          oks |-> IF calls.op = "try_read_task_output" /\ calls.ret = "ok"
                        /\ calls.oks < MaxHops
                  THEN calls.oks + 1 ELSE calls.oks,
          waited |-> calls.waited \/ res.ret = "listener"]

\* raw_vc.rs:329-375  one round of the loop of poll: with a stored listener
\* that is not notified it returns Pending (336-340); a notified one is
\* cleared (341) and the read of the current handle is made
poll(r) ==
    /\ fut[r].mode \in {"read", "strong_read"}
    /\ fut[r].status = "pending"
    /\ LET this == [fut[r] EXCEPT !.listener = "none"]
           task == this.current.task
       IN IF fut[r].listener = "waiting"
          THEN UNCHANGED <<fut, task_state, read_set, calls>>
          ELSE IF this.current.kind = "TaskOutput"
          THEN LET res == try_read_task_output(task, this.strongly_consistent) IN
               /\ fut' = [fut EXCEPT ![r] =
                      CASE res.ret = "ok" -> poll_output_ok(this, res.vc)
                        [] res.ret = "listener" -> poll_pending(this)
                        [] OTHER -> poll_ready(this, TaskErrorResult(res.vc))]
               /\ task_state' = EnqueueOnRead(task, res)
               /\ read_set' = IF res.ret = "ok"
                              THEN RecordRead(r, Edge("output", task, OutputVersion(task)))
                              ELSE read_set
               /\ calls' = NoteOutputCall(r, task, this.strongly_consistent, res)
          ELSE LET res == try_read_task_cell(task, this.current.index) IN
               /\ fut' = [fut EXCEPT ![r] =
                      IF res.ret = "ok"
                      THEN poll_ready(this, cast(res.content, this.arg))
                      ELSE poll_pending(this)]
               /\ read_set' = IF res.ret = "ok"
                              THEN RecordRead(r, Edge("cell", task, res.content.version))
                              ELSE read_set
               /\ calls' = NoteCellCall(r, task, this.current.index, res)
               /\ UNCHANGED task_state
    /\ UNCHANGED <<output, cell, dirty_flag, edges, src_gen, started_gen, prev, executing,
                 task_key, spawned>>

(***************************************************************************)
(* Untracked reads: raw_vc.rs:131-169                                      *)
(***************************************************************************)
\* raw_vc.rs:149-155: the arguments and `let mut current = self`
into_read_untracked_start(vc, strongly_consistent, T) ==
    [mode |-> IF strongly_consistent THEN "strong_read_untracked" ELSE "read_untracked",
     status |-> "pending", orig |-> vc, current |-> vc,
     strongly_consistent |-> strongly_consistent, listener |-> "none", arg |-> T,
     result |-> NoResult]

\* raw_vc.rs:133-138
into_read_untracked(vc, T) == into_read_untracked_start(vc, FALSE, T)

\* raw_vc.rs:142-147
into_strongly_consistent_read_untracked(vc, T) == into_read_untracked_start(vc, TRUE, T)

\* raw_vc.rs:158-161: current = read_task_output_untracked(.., strongly_consistent).await?
untracked_output_ok(this, vc) == [this EXCEPT !.current = vc]

\* raw_vc.rs:156-168  one round of the loop; an await on a listener resumes
\* when the listener is notified
into_read_untracked_internal(r) ==
    /\ fut[r].mode \in {"read_untracked", "strong_read_untracked"}
    /\ fut[r].status = "pending"
    /\ fut[r].listener # "waiting"
    /\ LET this == [fut[r] EXCEPT !.listener = "none"]
           task == this.current.task
       IN IF this.current.kind = "TaskOutput"
          THEN LET res == try_read_task_output(task, this.strongly_consistent) IN
               /\ fut' = [fut EXCEPT ![r] =
                      CASE res.ret = "ok" -> untracked_output_ok(this, res.vc)
                        [] res.ret = "listener" -> poll_pending(this)
                        [] OTHER -> poll_ready(this, TaskErrorResult(res.vc))]
               /\ task_state' = EnqueueOnRead(task, res)
               /\ calls' = NoteOutputCall(r, task, this.strongly_consistent, res)
          ELSE LET res == try_read_task_cell(task, this.current.index) IN
               /\ fut' = [fut EXCEPT ![r] =
                      IF res.ret = "ok"
                      THEN poll_ready(this, cast(res.content, this.arg))
                      ELSE poll_pending(this)]
               /\ calls' = NoteCellCall(r, task, this.current.index, res)
               /\ UNCHANGED task_state
    /\ UNCHANGED <<output, cell, dirty_flag, edges, read_set, src_gen, started_gen, prev, executing,
                 task_key, spawned>>

(***************************************************************************)
(* resolve_trait, resolve_value: raw_vc.rs:171-241                         *)
(***************************************************************************)
Resolved(tag, h) == [tag |-> tag, vt |-> 0, payload |-> 0, handle |-> h]


\* raw_vc.rs:189-201
resolve_trait_content(content, trait_type, task, index) ==
    IF content.present
    THEN IF content.vt # 0
         THEN IF trait_type \in TraitsOf[content.vt]
              THEN Resolved("Some", TaskCell(task, index))
              ELSE Resolved("None", Unset)
         ELSE Resolved("UntypedContent", Unset)
    ELSE Resolved("NoContent", Unset)

resolve_value_content_any(content, value_type, task, index) ==
    IF content.present
    THEN IF content.vt # 0
         THEN Resolved("Some", TaskCell(task, index))
         ELSE Resolved("UntypedContent", Unset)
    ELSE Resolved("NoContent", Unset)

resolve_value_content_lenient(content, value_type, task, index) ==
    IF content.present /\ content.vt = value_type
    THEN Resolved("Some", TaskCell(task, index))
    ELSE Resolved("None", Unset)

\* raw_vc.rs:225-237
resolve_value_content(content, value_type, task, index) ==
    IF content.present
    THEN IF content.vt # 0
         THEN IF content.vt = value_type
              THEN Resolved("Some", TaskCell(task, index))
              ELSE Resolved("None", Unset)
         ELSE Resolved("UntypedContent", Unset)
    ELSE Resolved("NoContent", Unset)

\* raw_vc.rs:175-177, 211-213
resolve_start(mode, vc, type) ==
    [mode |-> mode, status |-> "pending", orig |-> vc, current |-> vc,
     strongly_consistent |-> FALSE, listener |-> "none", arg |-> type,
     result |-> NoResult]

\* one round of the loop of resolve_trait (178-204) or resolve_value (214-240)
ResolveRound(r, mode) ==
    /\ fut[r].mode = mode
    /\ fut[r].status = "pending"
    /\ fut[r].listener # "waiting"
    /\ LET this == [fut[r] EXCEPT !.listener = "none"]
           task == this.current.task
       IN IF this.current.kind = "TaskOutput"
          THEN LET res == try_read_task_output(task, FALSE) IN
               /\ fut' = [fut EXCEPT ![r] =
                      CASE res.ret = "ok" -> [this EXCEPT !.current = res.vc]
                        [] res.ret = "listener" -> poll_pending(this)
                        [] OTHER -> poll_ready(this, Resolved("TaskError", res.vc))]
               /\ task_state' = EnqueueOnRead(task, res)
               /\ read_set' = IF res.ret = "ok"
                              THEN RecordRead(r, Edge("output", task, OutputVersion(task)))
                              ELSE read_set
               /\ calls' = NoteOutputCall(r, task, FALSE, res)
          ELSE \E fails \in CellReadFailures(r) :
               LET res == IF fails THEN [ret |-> "err", content |-> EmptyCell]
                          ELSE try_read_task_cell(task, this.current.index) IN
               /\ fut' = [fut EXCEPT ![r] =
                      CASE res.ret = "ok" ->
                              poll_ready(this,
                                  IF mode = "resolve_trait"
                                  THEN resolve_trait_content(res.content, this.arg, task,
                                                             this.current.index)
                                  ELSE resolve_value_content(res.content, this.arg, task,
                                                             this.current.index))
                        [] res.ret = "listener" -> poll_pending(this)
                        [] OTHER -> poll_ready(this, Resolved("ReadError", Unset))]
               /\ read_set' = IF res.ret = "ok"
                              THEN RecordRead(r, Edge("cell", task, res.content.version))
                              ELSE read_set
               /\ calls' = NoteCellCall(r, task, this.current.index, res)
               /\ UNCHANGED task_state
    /\ UNCHANGED <<output, cell, dirty_flag, edges, src_gen, started_gen, prev, executing,
                 task_key, spawned>>

resolve_trait(r) == ResolveRound(r, "resolve_trait")
resolve_value(r) == ResolveRound(r, "resolve_value")

(***************************************************************************)
(* resolve: raw_vc.rs:243-259                                              *)
(***************************************************************************)
\* raw_vc.rs:244-246
resolve_new(vc) ==
    [mode |-> "resolve", status |-> "pending", orig |-> vc, current |-> vc,
     strongly_consistent |-> FALSE, listener |-> "none", arg |-> 0,
     result |-> NoResult]

resolve_cell_as_output(current) == Resolved("Ok", TaskOutput(current.task))

resolve_cell_next(current) == Resolved("Ok", TaskCell(current.task, current.index + 1))

\* raw_vc.rs:256  RawVc::TaskCell(_, _) => return Ok(current)
resolve_cell(current) == Resolved("Ok", current)

\* raw_vc.rs:247-258  one round of the loop
resolve(r) ==
    /\ fut[r].mode = "resolve"
    /\ fut[r].status = "pending"
    /\ fut[r].listener # "waiting"
    /\ LET this == [fut[r] EXCEPT !.listener = "none"]
           task == this.current.task
       IN IF this.current.kind = "TaskOutput"
          THEN LET res == try_read_task_output(task, FALSE) IN
               /\ fut' = [fut EXCEPT ![r] =
                      CASE res.ret = "ok" -> [this EXCEPT !.current = res.vc]
                        [] res.ret = "listener" -> poll_pending(this)
                        [] OTHER -> poll_ready(this, TaskErrorResult(res.vc))]
               /\ task_state' = EnqueueOnRead(task, res)
               /\ read_set' = IF res.ret = "ok"
                              THEN RecordRead(r, Edge("output", task, OutputVersion(task)))
                              ELSE read_set
               /\ calls' = NoteOutputCall(r, task, FALSE, res)
          ELSE /\ fut' = [fut EXCEPT ![r] = poll_ready(this, resolve_cell(this.current))]
               /\ UNCHANGED <<task_state, read_set, calls>>
    /\ UNCHANGED <<output, cell, dirty_flag, edges, src_gen, started_gen, prev, executing,
                 task_key, spawned>>

(***************************************************************************)
(* The root of the engine (run_once) starts reads and resolutions.         *)
(***************************************************************************)
\* the handles the root holds: a chain of two outputs (F), the task of
\* scenario S4 (C), the failing task (E), and a cell
RootHandles == {TaskOutput("F"), TaskOutput("C"), TaskOutput("E"), TaskCell("C", 0)}

RootBegin(f) ==
    /\ fut["root"].status # "pending"
    /\ fut' = [fut EXCEPT !["root"] = f]
    /\ read_set' = [read_set EXCEPT !["root"] = {}]
    /\ calls' = NoBackendCall
    /\ started_gen' = src_gen
    /\ UNCHANGED <<task_state, output, cell, dirty_flag, edges, src_gen, executing,
                   task_key, spawned>>

\* the root starts an operation
RootStart(f) == RootBegin(f) /\ UNCHANGED prev

\* the root starts an operation on the handle or on the result of the
\* operation it has just completed
RootThen(f) ==
    /\ RootBegin(f)
    /\ prev' = [mode |-> fut["root"].mode, orig |-> fut["root"].orig,
                result |-> fut["root"].result]

\* raw_vc.rs:119-123
into_read(vc, T) == RootStart(new(vc, T))
\* raw_vc.rs:125-129
into_strongly_consistent_read(vc, T) == RootStart(new_strongly_consistent(vc, T))

(***************************************************************************)
(* Scheduler and task execution (specification 4.2 - 4.4).                 *)
(***************************************************************************)
\* the function of scenario S1
double(a) == 2 * a

task_of_key_none(a) == {}

\* the task table: the tasks registered under the key (double, a)
task_of_key(a) == {i \in DOMAIN Pool : task_key[i] = a}

\* spawn(function_id, argument_fingerprint) -> OutputHandle: the handle of the
\* task registered under the key, or of a task created with the next task id
spawn(a) ==
    LET found == task_of_key(a)
        free == {i \in DOMAIN Pool : task_key[i] = 0}
    IN /\ Len(spawned) < MaxSpawns
       /\ found # {} \/ free # {}
       /\ LET from == IF found # {} THEN found ELSE free
              i == CHOOSE x \in from : \A y \in from : x <= y
          IN /\ task_key' = [task_key EXCEPT ![i] = a]
             /\ spawned' = Append(spawned, [key |-> a, handle |-> TaskOutput(Pool[i])])
       /\ UNCHANGED <<task_state, output, cell, dirty_flag, edges, read_set, src_gen, fut,
                      calls, started_gen, prev, executing>>

\* a Dirty task is enqueued
Enqueue(t) ==
    /\ task_state[t] = "Dirty"
    /\ task_state' = [task_state EXCEPT ![t] = "Scheduled"]
    /\ UNCHANGED <<output, cell, dirty_flag, edges, read_set, src_gen, fut, calls, started_gen, prev, executing,
                 task_key, spawned>>

\* a worker takes the task and starts its body; a deriving body awaits its input
Dispatch(t) ==
    /\ task_state[t] = "Scheduled"
    /\ task_state' = [task_state EXCEPT ![t] = "Running"]
    /\ read_set' = [read_set EXCEPT ![t] = {}]
    /\ fut' = [fut EXCEPT ![t] =
            IF Reads(t)
            THEN new(TaskOutput(Body[t].from), CellType[Body[t].from])
            ELSE NoFuture]
    /\ executing' = [executing EXCEPT ![t] = @ + 1]
    /\ UNCHANGED <<output, cell, dirty_flag, edges, src_gen, calls, started_gen, prev, task_key, spawned>>

publish_cell_always(old, vt, payload) ==
    [present |-> TRUE, vt |-> vt, payload |-> payload, version |-> old.version + 1]

\* publish_cell: store and bump the version if the slot is empty or the
\* payload differs, else no-op
publish_cell(old, vt, payload) ==
    IF ~old.present \/ old.vt # vt \/ vt = 0 \/ old.payload # payload
    THEN [present |-> TRUE, vt |-> vt, payload |-> payload, version |-> old.version + 1]
    ELSE old

\* the body returns: publish the cell and the output, install the read-set
Finish(t) ==
    /\ task_state[t] = "Running"
    /\ Reads(t) => fut[t].status = "ready"
    /\ LET failed == \/ Body[t].kind \in {"fail", "reject"}
                     \/ Reads(t) /\ fut[t].result.tag # "content"
           publishes == ~failed
                        /\ Body[t].kind \in {"source", "derive", "const", "untyped", "double"}
           payload == CASE Body[t].kind = "source" -> src_gen
                        [] Body[t].kind = "derive" -> fut[t].result.payload
                        [] Body[t].kind = "double" -> double(task_key[CHOOSE i \in DOMAIN Pool : Pool[i] = t])
                        [] OTHER -> 0
           newcell == IF publishes THEN publish_cell(cell[t], CellType[t], payload)
                      ELSE cell[t]
           newout == CASE Body[t].kind = "reject" /\ fut[t].result.tag = "content" ->
                            RejectError(t, fut[t].result.payload)
                       [] failed -> ErrorOutput(t)
                       [] Body[t].kind = "forward" -> TaskOutput(Body[t].from)
                       [] Body[t].kind = "switch" -> SwitchTo(fut[t].result.payload)
                       [] OTHER -> TaskCell(t, 0)
           stale == (StaleReaders(t, newcell.version)
                        \cup StaleOutputReaders(t, OutputVersionOf(t, newout))) \ {t}
           late == \E e \in read_set[t] :
                       \/ e.kind = "cell" /\ cell[e.task].version > e.version
                       \/ e.kind = "output" /\ OutputVersion(e.task) > e.version
       IN /\ cell' = [cell EXCEPT ![t] = newcell]
          /\ output' = [output EXCEPT ![t] = newout]
          /\ edges' = [edges EXCEPT ![t] = read_set[t]]
          /\ dirty_flag' = [FlagRunning(dirty_flag, stale) EXCEPT ![t] = @ \/ late]
          /\ task_state' = [MarkDirty(task_state, stale) EXCEPT ![t] = "Done"]
          /\ fut' = [Wake(fut, t, newcell # cell[t]) EXCEPT ![t] = NoFuture]
    /\ read_set' = [read_set EXCEPT ![t] = {}]
    /\ executing' = [executing EXCEPT ![t] = @ - 1]
    /\ UNCHANGED <<src_gen, calls, started_gen, prev, task_key, spawned>>

\* a task that finished with the dirty-on-completion flag is requeued
Requeue(t) ==
    /\ task_state[t] = "Done"
    /\ dirty_flag[t]
    /\ task_state' = [task_state EXCEPT ![t] = "Scheduled"]
    /\ dirty_flag' = [dirty_flag EXCEPT ![t] = FALSE]
    /\ UNCHANGED <<output, cell, edges, read_set, src_gen, fut, calls, started_gen, prev, executing,
                 task_key, spawned>>

\* the external source changes: scenario S2, the cell of S gets a new value
\* with an incremented version and its readers are invalidated
ExternalInvalidate ==
    /\ src_gen < MaxGen
    /\ src_gen' = src_gen + 1
    /\ IF cell["S"].present
       THEN LET newcell == [cell["S"] EXCEPT !.payload = src_gen + 1, !.version = @ + 1]
                stale == StaleReaders("S", newcell.version)
            IN /\ cell' = [cell EXCEPT !["S"] = newcell]
               /\ task_state' = MarkDirty(task_state, stale)
               /\ dirty_flag' = FlagRunning(dirty_flag, stale)
       ELSE UNCHANGED <<cell, task_state, dirty_flag>>
    /\ UNCHANGED <<output, edges, read_set, fut, calls, started_gen, prev, executing,
                 task_key, spawned>>

(***************************************************************************)
(* Next-state relations of the read protocol on the backend.               *)
(***************************************************************************)
\* the steps of the tasks and of the source
TaskStep ==
    \/ \E t \in Tasks : poll(t) /\ UNCHANGED <<reg_all, font_vars>>
    \/ \E t \in Tasks : Enqueue(t) /\ UNCHANGED <<reg_all, font_vars>>
    \/ \E t \in Tasks : Dispatch(t) /\ UNCHANGED <<reg_all, font_vars>>
    \/ \E t \in Tasks : Finish(t) /\ UNCHANGED <<reg_all, font_vars>>
    \/ \E t \in Tasks : Requeue(t) /\ UNCHANGED <<reg_all, font_vars>>
    \/ ExternalInvalidate /\ UNCHANGED <<reg_all, font_vars>>

\* the root makes tracked reads
Next ==
    \/ \E h \in RootHandles, T \in ValueTypeIds : into_read(h, T) /\ UNCHANGED <<reg_all, font_vars>>
    \/ \E h \in RootHandles, T \in ValueTypeIds :
            into_strongly_consistent_read(h, T) /\ UNCHANGED <<reg_all, font_vars>>
    \/ poll("root") /\ UNCHANGED <<reg_all, font_vars>>
    \/ TaskStep

\* the root makes untracked reads
NextUntracked ==
    \/ \E h \in RootHandles, T \in ValueTypeIds :
            RootStart(into_read_untracked(h, T)) /\ UNCHANGED <<reg_all, font_vars>>
    \/ \E h \in RootHandles, T \in ValueTypeIds :
            RootStart(into_strongly_consistent_read_untracked(h, T)) /\ UNCHANGED <<reg_all, font_vars>>
    \/ into_read_untracked_internal("root") /\ UNCHANGED <<reg_all, font_vars>>
    \/ TaskStep

\* the handles the root reads both ways: a chain of two outputs, and a cell
BothHandles == {TaskOutput("F"), TaskCell("C", 0)}

\* the root makes tracked and untracked reads
NextBoth ==
    \/ \E h \in BothHandles : RootThen(new(h, CellType["C"])) /\ UNCHANGED <<reg_all, font_vars>>
    \/ \E h \in BothHandles :
            RootThen(into_read_untracked(h, CellType["C"])) /\ UNCHANGED <<reg_all, font_vars>>
    \/ \E h \in BothHandles :
            RootThen(into_strongly_consistent_read_untracked(h, CellType["C"]))
                /\ UNCHANGED <<reg_all, font_vars>>
    \/ poll("root") /\ UNCHANGED <<reg_all, font_vars>>
    \/ into_read_untracked_internal("root") /\ UNCHANGED <<reg_all, font_vars>>
    \/ TaskStep

\* the handles of a chain that leads back to itself and of a chain that ends
CycleHandles == {TaskOutput("L"), TaskOutput("F")}

\* the root reads and resolves a handle whose chain leads back to itself
NextCycle ==
    \/ \E h \in CycleHandles : into_read(h, CellType["C"]) /\ UNCHANGED <<reg_all, font_vars>>
    \/ \E h \in CycleHandles : RootStart(resolve_new(h)) /\ UNCHANGED <<reg_all, font_vars>>
    \/ \E h \in CycleHandles :
            RootStart(resolve_start("resolve_value", h, CellType["C"])) /\ UNCHANGED <<reg_all, font_vars>>
    \/ \E h \in CycleHandles, T \in TraitTypeIds :
            RootStart(resolve_start("resolve_trait", h, T)) /\ UNCHANGED <<reg_all, font_vars>>
    \/ poll("root") /\ UNCHANGED <<reg_all, font_vars>>
    \/ resolve("root") /\ UNCHANGED <<reg_all, font_vars>>
    \/ resolve_value("root") /\ UNCHANGED <<reg_all, font_vars>>
    \/ resolve_trait("root") /\ UNCHANGED <<reg_all, font_vars>>
    \/ TaskStep

\* the handle of scenario S3: R reads Q, which publishes the same payload on
\* every run
EqualHandles == {TaskOutput("R"), TaskOutput("Q")}

\* the root reads a task whose input is re-published without a change
NextEqual ==
    \/ \E h \in EqualHandles : into_read(h, CellType["R"]) /\ UNCHANGED <<reg_all, font_vars>>
    \/ \E h \in EqualHandles :
            into_strongly_consistent_read(h, CellType["R"]) /\ UNCHANGED <<reg_all, font_vars>>
    \/ poll("root") /\ UNCHANGED <<reg_all, font_vars>>
    \/ TaskStep

\* the root spawns double and resolves and reads the handles spawn returned
NextSpawn ==
    \/ \E a \in Args : spawn(a) /\ UNCHANGED <<reg_all, font_vars>>
    \/ \E i \in DOMAIN spawned :
            RootStart(resolve_new(spawned[i].handle)) /\ UNCHANGED <<reg_all, font_vars>>
    \/ \E i \in DOMAIN spawned :
            into_read(spawned[i].handle, CellType["P1"]) /\ UNCHANGED <<reg_all, font_vars>>
    \/ resolve("root") /\ UNCHANGED <<reg_all, font_vars>>
    \/ poll("root") /\ UNCHANGED <<reg_all, font_vars>>
    \/ \E t \in Tasks : Dispatch(t) /\ UNCHANGED <<reg_all, font_vars>>
    \/ \E t \in Tasks : Finish(t) /\ UNCHANGED <<reg_all, font_vars>>

\* the handles whose read fails: the failing task of scenario S6, a task that
\* forwards it, and a task whose failure depends on what it read
FailHandles == {TaskOutput("E"), TaskOutput("G"), TaskOutput("X")}

\* the root reads failing tasks, one read after another
NextFail ==
    \/ \E h \in FailHandles : RootThen(new(h, CellType[h.task])) /\ UNCHANGED <<reg_all, font_vars>>
    \/ poll("root") /\ UNCHANGED <<reg_all, font_vars>>
    \/ TaskStep

\* the handles the root collapses: a chain of two outputs whose first output
\* changes when the source changes, and a cell
CollapseHandles == {TaskOutput("W"), TaskCell("Q", 0)}

\* the last operation of the root was a resolve that returned a handle
ResolveDone ==
    /\ fut["root"].mode = "resolve"
    /\ fut["root"].status = "ready"
    /\ fut["root"].result.tag = "Ok"

\* the root resolves handles, resolves the handle a resolve returned, and
\* reads a handle after it has resolved it
NextCollapse ==
    \/ \E h \in CollapseHandles : RootThen(resolve_new(h)) /\ UNCHANGED <<reg_all, font_vars>>
    \/ ResolveDone /\ RootThen(resolve_new(fut["root"].result.handle)) /\ UNCHANGED <<reg_all, font_vars>>
    \/ \E T \in ValueTypeIds :
            ResolveDone /\ RootThen(new(fut["root"].orig, T)) /\ UNCHANGED <<reg_all, font_vars>>
    \/ resolve("root") /\ UNCHANGED <<reg_all, font_vars>>
    \/ poll("root") /\ UNCHANGED <<reg_all, font_vars>>
    \/ TaskStep

\* the handles whose resolution fails: an untyped cell, an empty cell, a task
\* error on the second hop and on the first
ErrorHandles == {TaskOutput("U"), TaskOutput("N"), TaskOutput("G"), TaskOutput("E")}

\* the root resolves handles whose resolution fails
NextResolveErr ==
    \/ \E h \in ErrorHandles, T \in TraitTypeIds :
            RootStart(resolve_start("resolve_trait", h, T)) /\ UNCHANGED <<reg_all, font_vars>>
    \/ \E h \in ErrorHandles, T \in ValueTypeIds :
            RootStart(resolve_start("resolve_value", h, T)) /\ UNCHANGED <<reg_all, font_vars>>
    \/ resolve_trait("root") /\ UNCHANGED <<reg_all, font_vars>>
    \/ resolve_value("root") /\ UNCHANGED <<reg_all, font_vars>>
    \/ \E t \in Tasks : Dispatch(t) /\ UNCHANGED <<reg_all, font_vars>>
    \/ \E t \in Tasks : Finish(t) /\ UNCHANGED <<reg_all, font_vars>>

\* the root resolves handles by trait and by value type
NextResolve ==
    \/ \E h \in RootHandles, T \in TraitTypeIds :
            RootStart(resolve_start("resolve_trait", h, T)) /\ UNCHANGED <<reg_all, font_vars>>
    \/ \E h \in RootHandles, T \in ValueTypeIds :
            RootStart(resolve_start("resolve_value", h, T)) /\ UNCHANGED <<reg_all, font_vars>>
    \/ resolve_trait("root") /\ UNCHANGED <<reg_all, font_vars>>
    \/ resolve_value("root") /\ UNCHANGED <<reg_all, font_vars>>
    \/ TaskStep

(***************************************************************************)
(* Font options: next_font_google/options.rs                               *)
(***************************************************************************)
RECURSIVE SeqsUpTo(_, _)
\* the sequences over S of length at most n
SeqsUpTo(S, n) ==
    IF n = 0 THEN {<<>>}
    ELSE LET shorter == SeqsUpTo(S, n - 1)
         IN shorter \cup {Append(q, x) : q \in shorter, x \in S}

Range(q) == {q[i] : i \in DOMAIN q}

\* options.rs:7
ALLOWED_DISPLAY_VALUES_NO_FALLBACK == <<"auto", "block", "swap", "optional">>

\* options.rs:7
ALLOWED_DISPLAY_VALUES == <<"auto", "block", "swap", "fallback", "optional">>

\* Option::None, Option::Some
None == [some |-> FALSE]
Some(v) == [some |-> TRUE, value |-> v]
\* request.rs  OneOrManyStrings
One(one) == [kind |-> "One", list |-> <<one>>]
Many(many) == [kind |-> "Many", list |-> many]

RECURSIVE from_iter(_)
\* IndexSet::from_iter: the values in the order of their first occurrence
from_iter(many) ==
    IF many = <<>> THEN <<>>
    ELSE LET front == from_iter(SubSeq(many, 1, Len(many) - 1))
             last == many[Len(many)]
         IN IF last \in Range(front) THEN front ELSE Append(front, last)

\* options.rs:57-64, 66-73  map_or_else(IndexSet::new, |w| match w {..})
one_or_many(arg) ==
    IF ~arg.some THEN <<>>
    ELSE IF arg.value.kind = "One" THEN arg.value.list
    ELSE from_iter(arg.value.list)

\* str::replace of one character
replace(str, from, to) == [i \in DOMAIN str |-> IF str[i] = from THEN to ELSE str[i]]

\* options.rs:23-27  enum FontWeights
Variable == [kind |-> "Variable", set |-> <<>>]
Fixed(set) == [kind |-> "Fixed", set |-> set]

\* Result<NextFontGoogleOptions>: Err(anyhow!(..)) with the message and the
\* values formatted into it, and Ok with the fields the function decides
Err(error, what, font_family) ==
    [tag |-> "Err", error |-> error, what |-> what, font_family |-> font_family,
     weights |-> [kind |-> "none", set |-> <<>>], styles |-> <<>>, display |-> "",
     axes |-> None]
Ok(font_family, weights, styles, display, axes) ==
    [tag |-> "Ok", error |-> "", what |-> "", font_family |-> font_family,
     weights |-> weights, styles |-> styles, display |-> display, axes |-> axes]

\* the first value of the list that the font does not have, "" if it has all
first_missing(requested, available) ==
    IF \A i \in DOMAIN requested : requested[i] \in Range(available) THEN ""
    ELSE requested[CHOOSE i \in DOMAIN requested :
                    /\ requested[i] \notin Range(available)
                    /\ \A j \in 1 .. (i - 1) : requested[j] \in Range(available)]

\* options.rs:75-107  let weights = if .. else if .. else ..
weights_of(requested_weights, font_data, font_family) ==
    IF requested_weights = <<>>
    THEN IF "variable" \notin Range(font_data.weights)
         THEN Err("Missing weight", "", font_family)
         ELSE Ok(font_family, Variable, <<>>, "", None)
    ELSE IF "variable" \in Range(requested_weights)
    THEN IF Len(requested_weights) > 1
         THEN Err("Unexpected variable in weight array", "", font_family)
         ELSE Ok(font_family, Variable, <<>>, "", None)
    ELSE IF first_missing(requested_weights, font_data.weights) # ""
         THEN Err("Unknown weight",
                  first_missing(requested_weights, font_data.weights), font_family)
         ELSE Ok(font_family, Fixed(requested_weights), <<>>, "", None)

default_styles_normal(styles, font_data) ==
    IF styles = <<>> THEN <<"normal">> ELSE styles

\* options.rs:109-115  if styles.is_empty() { .. }
default_styles(styles, font_data) ==
    IF styles = <<>>
    THEN IF Len(font_data.styles) = 1
         THEN <<font_data.styles[1]>>
         ELSE <<"normal">>
    ELSE styles

\* options.rs:48-161
options_from_request(request, data) ==
    LET font_family == replace(request.import, "_", " ") IN
    IF font_family \notin DOMAIN data THEN Err("Unknown font", "", <<>>)
    ELSE
    LET font_data == data[font_family]
        requested_weights == one_or_many(request.weight)
        weights == weights_of(requested_weights, font_data, font_family)
        styles == default_styles(one_or_many(request.style), font_data)
        display == IF request.display.some THEN request.display.value ELSE "optional"
    IN IF weights.tag = "Err" THEN weights
       ELSE IF first_missing(styles, font_data.styles) # ""
       THEN Err("Unknown style", first_missing(styles, font_data.styles), font_family)
       ELSE IF display \notin Range(ALLOWED_DISPLAY_VALUES)
       THEN Err("Invalid display value", display, font_family)
       ELSE IF request.axes.some /\ request.axes.value # <<>>
                /\ weights.weights.kind # "Variable"
       THEN Err("Axes can only be defined for variable fonts", "", <<>>)
       ELSE Ok(font_family, weights.weights, styles, display, request.axes)

\* the import names of the requests, and the font families of the font data
Imports == {<<"A">>, <<"O", "_", "S">>}
\* the font data: the families it has, all with the same FontDataEntry
FontData ==
    {[f \in fs |-> [weights |-> w, styles |-> st]] :
        fs \in SUBSET {<<"A">>, <<"O", " ", "S">>, <<"O", "_", "S">>},
        w \in {<<"400">>, <<"400", "variable">>, <<"variable">>, <<"200", "400">>},
        st \in {<<"normal">>, <<"italic">>, <<"normal", "italic">>, <<"italic", "normal">>}}
\* Option<OneOrManyStrings> over the names
OneOrManyArgs(names) ==
    {None} \cup {Some(One(x)) : x \in names}
        \cup {Some(Many(q)) : q \in SeqsUpTo(names, MaxMany)}

\* before the call of options_from_request
NoFontCall ==
    [request |-> [import |-> <<>>, weight |-> None, style |-> None, display |-> None,
                  axes |-> None],
     data |-> [f \in {} |-> 0],
     result |-> [Err("", "", <<>>) EXCEPT !.tag = "none"]]

\* the call of options_from_request of a font import, made once
Call(import, weight, style, display, axes, data) ==
    LET request == [import |-> import, weight |-> weight, style |-> style,
                    display |-> display, axes |-> axes]
    IN font_call' = [request |-> request, data |-> data,
                     result |-> options_from_request(request, data)]

\* requests that differ in their weights
NextFontWeights ==
    /\ font_call = NoFontCall
    /\ \E import \in Imports, data \in FontData, weight \in OneOrManyArgs({"400", "200", "variable"}),
       style \in {None, Some(One("italic"))}, display \in {None, Some("foo")},
       axes \in {None, Some(<<"wght">>)} :
            Call(import, weight, style, display, axes, data)
                /\ UNCHANGED <<reg_all, bk_vars>>

\* requests that differ in their styles
NextFontStyles ==
    /\ font_call = NoFontCall
    /\ \E import \in Imports, data \in FontData,
       weight \in {None, Some(One("400")), Some(One("200"))},
       style \in OneOrManyArgs({"normal", "italic", "foo"}), display \in {None, Some("foo")} :
            Call(import, weight, style, display, None, data)
                /\ UNCHANGED <<reg_all, bk_vars>>

\* requests that fail any of the checks, and several of them
NextFontChecks ==
    /\ font_call = NoFontCall
    /\ \E import \in Imports, data \in FontData,
       weight \in {None, Some(One("400")), Some(One("200")), Some(One("variable")),
                   Some(Many(<<"400", "variable">>))},
       style \in {None, Some(One("italic")), Some(One("foo"))},
       display \in {None} \cup {Some(d) :
                    d \in {"auto", "block", "swap", "fallback", "optional", "foo"}},
       axes \in {None, Some(<<>>), Some(<<"wght">>)} :
            Call(import, weight, style, display, axes, data)
                /\ UNCHANGED <<reg_all, bk_vars>>

(***************************************************************************)
(* Specifications.                                                         *)
(***************************************************************************)
Init == RegistryInit /\ BackendInit /\ font_call = NoFontCall

\* options_from_request on requests that differ in their weights
SpecFontWeights == Init /\ [][NextFontWeights]_vars

\* options_from_request on requests that differ in their styles
SpecFontStyles == Init /\ [][NextFontStyles]_vars

\* options_from_request on requests that fail any of the checks
SpecFontChecks == Init /\ [][NextFontChecks]_vars

NextRegSeq ==
    \/ \E n \in Names, v \in Values : register_function(n, v) /\ UNCHANGED <<bk_vars, font_vars>>
    \/ \E n \in Names, v \in Values : register_value_type(n, v) /\ UNCHANGED <<bk_vars, font_vars>>
    \/ \E n \in Names, v \in Values : register_trait_type(n, v) /\ UNCHANGED <<bk_vars, font_vars>>
    \/ \E k \in Kinds, v \in Values : LookupId(k, v) /\ UNCHANGED <<bk_vars, font_vars>>
    \/ \E k \in Kinds, n \in Names : LookupIdByName(k, n) /\ UNCHANGED <<bk_vars, font_vars>>

\* the registry, register calls made one after another
SpecRegSeq == Init /\ [][NextRegSeq]_vars

NextRegConc ==
    \/ \E t \in Threads, k \in Kinds, n \in Names, v \in Values :
            RegCheck(t, k, n, v) /\ UNCHANGED <<bk_vars, font_vars>>
    \/ \E t \in Threads : RegAlloc(t) /\ UNCHANGED <<bk_vars, font_vars>>
    \/ \E t \in Threads : RegStore(t) /\ UNCHANGED <<bk_vars, font_vars>>
    \/ \E t \in Threads : RegByValue(t) /\ UNCHANGED <<bk_vars, font_vars>>
    \/ \E t \in Threads : RegByName(t) /\ UNCHANGED <<bk_vars, font_vars>>

\* the registry, register calls of two threads interleaved
SpecRegConc == Init /\ [][NextRegConc]_vars

\* the kind whose lookups run beside its register calls, each thread
\* registering under its own name

NextRegLookups ==
    \/ \E t \in Threads, v \in Values :
            RegCheck(t, "function", IF t = "t1" THEN "a" ELSE "b", v)
                /\ UNCHANGED <<bk_vars, font_vars>>
    \/ \E t \in Threads : RegAlloc(t) /\ UNCHANGED <<bk_vars, font_vars>>
    \/ \E t \in Threads : RegStore(t) /\ UNCHANGED <<bk_vars, font_vars>>
    \/ \E t \in Threads : RegByValue(t) /\ UNCHANGED <<bk_vars, font_vars>>
    \/ \E t \in Threads : RegByName(t) /\ UNCHANGED <<bk_vars, font_vars>>
    \/ LookupId("function", 1) /\ UNCHANGED <<bk_vars, font_vars>>
    \/ LookupIdByName("function", "a") /\ UNCHANGED <<bk_vars, font_vars>>
    \/ Describe /\ UNCHANGED <<bk_vars, font_vars>>

\* the registry, register calls of two threads interleaved with lookups
SpecRegLookups == Init /\ [][NextRegLookups]_vars

\* tracked reads on the backend
Spec == Init /\ [][Next]_vars

\* the root reads a chain of two outputs, a cell and a failing task
NextLive ==
    \/ \E h \in BothHandles \cup {TaskOutput("E")} :
            into_read(h, CellType["C"]) /\ UNCHANGED <<reg_all, font_vars>>
    \/ \E h \in BothHandles \cup {TaskOutput("E")} :
            into_strongly_consistent_read(h, CellType["C"])
                /\ UNCHANGED <<reg_all, font_vars>>
    \/ poll("root") /\ UNCHANGED <<reg_all, font_vars>>
    \/ TaskStep

\* tracked reads on the backend, with a root future that is polled again
\* after a notification and a scheduler whose workers run the queued tasks
SpecLive ==
    /\ Init /\ [][NextLive]_vars
    /\ WF_vars(poll("root") /\ UNCHANGED <<reg_all, font_vars>>)
    /\ WF_vars(TaskStep)

\* untracked reads on the backend
SpecUntracked == Init /\ [][NextUntracked]_vars

\* resolve_trait and resolve_value on the backend
SpecResolve == Init /\ [][NextResolve]_vars

\* resolve_trait and resolve_value on handles whose resolution fails
SpecResolveErr == Init /\ [][NextResolveErr]_vars

\* tracked and untracked reads of the same handles
SpecBoth == Init /\ [][NextBoth]_vars

\* reads and resolutions of a chain that leads back to itself
SpecCycle == Init /\ [][NextCycle]_vars

\* reads of a task whose input is re-published without a change
SpecEqual == Init /\ [][NextEqual]_vars

\* memoizing spawn, and reads of the spawned tasks
SpecSpawn == Init /\ [][NextSpawn]_vars

\* reads of failing tasks
SpecFail == Init /\ [][NextFail]_vars

\* resolve, resolve of the result, and read after resolve
SpecCollapse == Init /\ [][NextCollapse]_vars

(***************************************************************************)
(* Claims about reads and resolutions.                                     *)
(***************************************************************************)
RECURSIVE Follow(_, _)
\* the handle the output chain from h leads to, following at most n outputs
Follow(h, n) ==
    IF h.kind = "TaskOutput" /\ n > 0 /\ output[h.task].kind \in {"TaskOutput", "TaskCell"}
    THEN Follow(output[h.task], n - 1)
    ELSE h

Terminal(h) == Follow(h, Cardinality(Tasks))

\* the handle a recorded backend call was made on
CallHandle(c) ==
    IF c.op = "try_read_task_output" THEN TaskOutput(c.task) ELSE TaskCell(c.task, c.index)

\* C1: a tracked read calls try_read_task_output on the current handle while
\* it is a TaskOutput and replaces the current handle by the handle returned,
\* calls try_read_task_cell once the current handle is a TaskCell, and when it
\* completes with content, the content is that of the terminal TaskCell of
\* the output chain from the original handle.
C1_TrackedReadFollowsChain ==
    [][fut'["root"].mode \in {"read", "strong_read"} =>
            /\ (calls' # calls /\ calls'.op # "none")
                    => fut["root"].current = CallHandle(calls')
            /\ (calls'.op = "try_read_task_output" /\ calls'.ret = "ok")
                    => fut'["root"].current = calls'.vc
            /\ (calls'.op # "none" /\ calls'.ret # "ok")
                    => fut'["root"].current = CallHandle(calls')
            /\ calls'.op = "try_read_task_cell" => fut'["root"].current.kind = "TaskCell"
            /\ (fut["root"].status = "pending" /\ fut'["root"].status = "ready"
                    /\ fut'["root"].result.tag = "content")
                    => LET c == Terminal(fut["root"].orig) IN
                        /\ c.kind = "TaskCell"
                        /\ calls'.op = "try_read_task_cell"
                        /\ CallHandle(calls') = c
                        /\ fut'["root"].result.vt = cell[c.task].vt
                        /\ fut'["root"].result.payload = cell[c.task].payload]_vars

\* C1 witness: a tracked read of the output of F, two outputs away from the
\* cell of C, has completed with content
C1_Witness ==
    /\ fut["root"].mode = "read" /\ fut["root"].orig = TaskOutput("F")
    /\ fut["root"].status = "ready" /\ fut["root"].result.tag = "content"
    /\ calls.oks = 2

\* C2: in a strongly consistent tracked read every try_read_task_output call
\* made before the output of the original task is obtained carries
\* strongly_consistent = TRUE, retries included, and every call for a later
\* hop carries FALSE.
C2_StrongFlagFirstHopOnly ==
    (fut["root"].mode = "strong_read" /\ calls.op = "try_read_task_output")
        => (calls.sc <=> calls.oks = 0)

\* C2 witness: a strongly consistent read of the output of F waited for F,
\* retried, and has made its call for the second hop
C2_Witness ==
    /\ fut["root"].mode = "strong_read" /\ fut["root"].orig = TaskOutput("F")
    /\ calls.op = "try_read_task_output" /\ calls.task = "C"
    /\ calls.oks = 1 /\ calls.waited

\* C3: in a strongly consistent untracked read only the output read of the
\* original task carries strongly_consistent = TRUE; every later output hop
\* carries FALSE.
C3_UntrackedStrongFlagFirstHopOnly ==
    (fut["root"].mode = "strong_read_untracked"
        /\ calls.op = "try_read_task_output")
        => (calls.sc <=> calls.oks = 0)

\* C4: a strongly consistent read of a task issued after the source was
\* invalidated never returns a value computed from the state of the source
\* before the invalidation: the payload, which is the generation of the source
\* it was computed from, is at least the generation at the start of the read.
C4_StrongReadFresh ==
    (fut["root"].mode = "strong_read" /\ fut["root"].orig.kind = "TaskOutput"
        /\ fut["root"].status = "ready" /\ fut["root"].result.tag = "content")
        => fut["root"].result.payload >= started_gen

C11_ResolveFailureCauses ==
    LET f == fut["root"]
        tag == f.result.tag
        content == cell[calls.task]
    IN (f.mode \in {"resolve_value", "resolve_trait"} /\ f.status = "ready")
        => /\ tag = "ReadError" <=> (calls.op = "try_read_task_cell" /\ calls.ret = "err")
           /\ tag = "TaskError" <=> (calls.op = "try_read_task_output" /\ calls.ret = "err")
           /\ tag = "TaskError" =>
                /\ f.result.handle = ErrorOutput(calls.task)
                /\ Terminal(f.orig) = TaskOutput(calls.task)
           /\ (calls.op = "try_read_task_cell" /\ calls.ret = "ok") =>
                /\ Terminal(f.orig) = TaskCell(calls.task, calls.index)
                /\ tag = "NoContent" <=> ~content.present
                /\ tag = "UntypedContent" <=> (content.present /\ content.vt = 0)
           /\ tag \in {"NoContent", "UntypedContent", "TaskError", "ReadError"}
                => ~is_resolved(f.result.handle) /\ f.result.handle.kind # "TaskOutput"

\* C11 witness: resolve_value on the output of N, whose cell 0 is empty, has
\* ended with NoContent
C11_Witness ==
    /\ fut["root"].mode = "resolve_value" /\ fut["root"].orig = TaskOutput("N")
    /\ fut["root"].status = "ready" /\ fut["root"].result.tag = "NoContent"

\* the root completes its operation in this step
Completes == fut["root"].status = "pending" /\ fut'["root"].status = "ready"

\* C12: resolve makes output reads only, never a cell read; a handle it
\* returns is resolved and is the TaskCell at the end of the chain it
\* followed, the handle its last output read returned; on a handle that is a
\* TaskCell it returns the handle itself and makes no backend call and changes
\* no backend state.
C12_ResolveCollapses ==
    [][fut'["root"].mode = "resolve" =>
            /\ calls'.op # "try_read_task_cell"
            /\ (Completes /\ fut'["root"].result.tag = "Ok") =>
                    /\ is_resolved(fut'["root"].result.handle)
                    /\ ~is_resolved(fut["root"].orig) =>
                            /\ calls.op = "try_read_task_output" /\ calls.ret = "ok"
                            /\ fut'["root"].result.handle = calls.vc
            /\ (Completes /\ is_resolved(fut["root"].orig)) =>
                    /\ fut'["root"].result = Resolved("Ok", fut["root"].orig)
                    /\ calls' = NoBackendCall
                    /\ UNCHANGED <<task_state, output, cell, dirty_flag, edges, read_set>>
            /\ (fut["root"].status = "pending" /\ is_resolved(fut["root"].orig))
                    => calls = NoBackendCall]_vars

\* C12 witness: resolve of the output of W, two outputs away from the cell of
\* Q, has returned the cell
C12_Witness ==
    /\ fut["root"].mode = "resolve" /\ fut["root"].orig = TaskOutput("W")
    /\ fut["root"].status = "ready"
    /\ fut["root"].result = Resolved("Ok", TaskCell("Q", 0))
    /\ calls.op = "try_read_task_output" /\ calls.task = "Q"

\* C13: resolve of the handle a successful resolve returned returns that
\* handle again: resolve(resolve(h)) = resolve(h).
C13_ResolveIdempotent ==
    (ResolveDone /\ prev.mode = "resolve" /\ prev.result.tag = "Ok"
        /\ fut["root"].orig = prev.result.handle)
        => fut["root"].result.handle = prev.result.handle

\* C13 witness: the output of W was resolved and the resolve of the result has
\* returned
C13_Witness ==
    /\ ResolveDone
    /\ prev.mode = "resolve" /\ prev.orig = TaskOutput("W") /\ prev.result.tag = "Ok"
    /\ fut["root"].orig = prev.result.handle

\* the root completes a read of the handle it resolved just before
ReadAfterResolve ==
    /\ Completes
    /\ fut'["root"].mode = "read" /\ fut'["root"].result.tag = "content"
    /\ prev.mode = "resolve" /\ prev.result.tag = "Ok"
    /\ prev.orig = fut["root"].orig

RootCalls == calls' # calls /\ calls'.op # "none"

\* C15: every output read and the cell read of a tracked read that returns
\* its slot records an edge on that slot in the read-set of the reader, so a
\* completed tracked read has recorded one edge per hop; an untracked read
\* makes its calls on the same handles, follows the handle an output read
\* returns, returns the content of the cell it reaches, and leaves the
\* read-set as it is.
C15_TrackedRecordsUntrackedDoesNot ==
    [][/\ (fut'["root"].mode = "read" /\ RootCalls /\ calls'.ret = "ok") =>
            /\ (IF calls'.op = "try_read_task_output"
                THEN Edge("output", calls'.task, OutputVersion(calls'.task))
                ELSE Edge("cell", calls'.task, cell[calls'.task].version))
                   \in read_set'["root"]
            /\ read_set["root"] \subseteq read_set'["root"]
       /\ (fut'["root"].mode = "read" /\ Completes
                /\ fut'["root"].result.tag = "content") =>
            /\ Cardinality(read_set'["root"]) = calls'.oks + 1
            /\ \A e \in read_set'["root"] :
                    e.kind = "cell" => e.task = fut["root"].current.task
       /\ fut'["root"].mode \in {"read_untracked", "strong_read_untracked"} =>
            /\ read_set'["root"] = {}
            /\ fut["root"].status = "pending" => read_set'["root"] = read_set["root"]
            /\ RootCalls => fut["root"].current = CallHandle(calls')
            /\ (RootCalls /\ calls'.op = "try_read_task_output" /\ calls'.ret = "ok")
                    => fut'["root"].current = calls'.vc
            /\ (Completes /\ fut'["root"].result.tag = "content") =>
                    LET c == fut["root"].current IN
                    /\ is_resolved(c)
                    /\ fut'["root"].result.vt = cell[c.task].vt
                    /\ fut'["root"].result.payload = cell[c.task].payload]_vars

\* C15 witness: a tracked read of the output of F returned content with three
\* edges recorded, and the untracked read of the output of F after it has
\* returned content with none
C15_Witness ==
    /\ prev.mode = "read" /\ prev.orig = TaskOutput("F") /\ prev.result.tag = "content"
    /\ fut["root"].mode = "read_untracked" /\ fut["root"].orig = TaskOutput("F")
    /\ fut["root"].status = "ready" /\ fut["root"].result.tag = "content"
    /\ calls.oks = 2
    /\ read_set["root"] = {}

RECURSIVE TasksUpTo(_, _, _)
\* the tasks on the output chain from h up to the task last, following at
\* most n outputs
TasksUpTo(h, last, n) ==
    IF h.kind # "TaskOutput" \/ n = 0 THEN {}
    ELSE {h.task} \cup (IF h.task = last THEN {}
                        ELSE TasksUpTo(output[h.task], last, n - 1))

\* C16: when an output read of a read, resolve, resolve_value or
\* resolve_trait returns the output of a task that is already on the chain
\* the operation has followed, the operation has ended with the error kind
\* for self-dependencies.
C16_SelfDependencyDetected ==
    LET f == fut["root"] IN
    (/\ f.mode \in {"read", "resolve", "resolve_value", "resolve_trait"}
     /\ calls.op = "try_read_task_output" /\ calls.ret = "ok"
     /\ calls.vc.kind = "TaskOutput"
     /\ calls.vc.task \in TasksUpTo(f.orig, calls.task, Cardinality(Tasks)))
        => (f.status = "ready" /\ f.result.tag = "SelfDependency")

\* C17: in every reachable state at most one worker executes the body of a
\* task, and a worker executes it exactly when the task is Running.
C17_NoDuplicateExecution ==
    \A t \in Tasks :
        /\ executing[t] <= 1
        /\ executing[t] = 1 <=> task_state[t] = "Running"

\* C17 witness: C is executed again after the source has changed, by one
\* worker, while a read of the root waits for its output
C17_Witness ==
    /\ task_state["C"] = "Running" /\ executing["C"] = 1
    /\ cell["C"].present /\ src_gen > 0
    /\ fut["root"].listener = "waiting" /\ fut["root"].current = TaskOutput("C")

\* C18: the version of a cell never decreases; it changes only by one, and
\* only when the slot was empty or the value type or payload published
\* differs from the stored one; publishing an equal payload again leaves the
\* cell and its version as they are, wakes no waiter of the cell and changes
\* neither the state nor the dirty-on-completion flag of any other task.
C18_PublishCellVersions ==
    [][\A t \in Tasks :
          /\ cell'[t].version >= cell[t].version
          /\ cell'[t].version # cell[t].version =>
                /\ cell'[t].version = cell[t].version + 1
                /\ \/ ~cell[t].present
                   \/ cell'[t].vt # cell[t].vt
                   \/ cell'[t].payload # cell[t].payload
                   \/ cell'[t].vt = 0
          /\ cell'[t].version = cell[t].version => cell'[t] = cell[t]
          /\ (/\ task_state[t] = "Running" /\ task_state'[t] # "Running"
              /\ output'[t] = TaskCell(t, 0)
              /\ cell[t].present /\ cell[t].vt # 0
              /\ cell'[t].vt = cell[t].vt
              /\ cell'[t].payload = cell[t].payload) =>
                /\ cell'[t].version = cell[t].version
                /\ \A r \in Readers :
                      (fut[r].listener = "waiting" /\ fut[r].current = TaskCell(t, 0))
                          => fut'[r].listener = "waiting"
                /\ \A x \in Tasks \ {t} :
                      task_state'[x] = task_state[x] /\ dirty_flag'[x] = dirty_flag[x]]_vars

\* C18 witness: Q has run again on the changed source and published the payload
\* it had published before; its cell is at version 1 and its reader R is
\* Done and not dirty
C18_Witness ==
    /\ task_state["Q"] = "Done"
    /\ \E e \in edges["Q"] : e.kind = "cell" /\ e.task = "S" /\ e.version = 2
    /\ cell["Q"].present /\ cell["Q"].version = 1
    /\ task_state["R"] = "Done" /\ ~dirty_flag["R"]

\* the slot of edge e has a version above the one the edge observed
Stale(e) ==
    IF e.kind = "cell" THEN cell[e.task].version > e.version
    ELSE OutputVersion(e.task) > e.version

\* C19: an invalidation of a slot marks every Done task that read the slot
\* in its latest execution Dirty and sets the dirty-on-completion flag of
\* every Running task that recorded it, and no task is ever Done without the
\* dirty-on-completion flag while an edge it recorded is stale.
C19_DependencyCompleteness ==
    [][\A R \in Tasks :
          /\ \A e \in edges[R] :
                (e.kind = "cell" /\ cell'[e.task].version > cell[e.task].version
                    /\ e.task # R) =>
                    /\ task_state[R] = "Done" => task_state'[R] = "Dirty"
                    /\ task_state[R] = "Running" => dirty_flag'[R]
          /\ (task_state'[R] = "Done" /\ ~dirty_flag'[R])
                => \A e \in edges'[R] : ~Stale(e)']_vars

\* C19 witness: D read the cell of S at version 1, the source has changed and
\* D is Dirty
C19_Witness ==
    /\ task_state["D"] = "Dirty"
    /\ Edge("cell", "S", 1) \in edges["D"]
    /\ cell["S"].version = 2

\* C20: spawn calls with the same function and argument fingerprint return
\* the handle of one task, so the handles end at the same TaskCell and a
\* resolve or read of any of them returns that cell and the value of the
\* function; and a task body is started only when the task is Scheduled,
\* which it becomes only from Dormant, from Dirty or from Done with the
\* dirty-on-completion flag: a Done task that no invalidation marked is never
\* executed again.
C20_Memoization ==
    [][/\ \A i, j \in DOMAIN spawned' :
            spawned'[i].key = spawned'[j].key =>
                spawned'[i].handle = spawned'[j].handle
       /\ \A i, j \in DOMAIN spawned :
            spawned[i].key = spawned[j].key =>
                Terminal(spawned[i].handle) = Terminal(spawned[j].handle)
       /\ \A a \in Args : Cardinality(task_of_key(a)') <= 1
       /\ \A i \in DOMAIN spawned :
            (Completes /\ fut["root"].orig = spawned[i].handle) =>
                /\ fut'["root"].mode = "resolve" =>
                        fut'["root"].result
                            = Resolved("Ok", TaskCell(get_task_id(spawned[i].handle), 0))
                /\ fut'["root"].mode = "read" =>
                        /\ fut'["root"].result.tag = "content"
                        /\ fut'["root"].result.payload = double(spawned[i].key)
       /\ \A t \in Tasks :
            /\ executing'[t] > executing[t] => task_state[t] = "Scheduled"
            /\ (task_state'[t] = "Scheduled" /\ task_state[t] # "Scheduled") =>
                    \/ task_state[t] \in {"Dormant", "Dirty"}
                    \/ task_state[t] = "Done" /\ dirty_flag[t]
            /\ task_state'[t] = "Dormant" => task_state[t] = "Dormant"
            /\ (task_state[t] = "Done" /\ ~dirty_flag[t] /\ task_state'[t] # "Done")
                    => task_state'[t] = "Dirty"]_vars

\* C20 witness: double(3) was spawned twice, the one task of the key is Done,
\* and a read of the second handle has returned 6
C20_Witness ==
    /\ Len(spawned) >= 2
    /\ spawned[1].key = 3 /\ spawned[2].key = 3
    /\ task_state[get_task_id(spawned[1].handle)] = "Done"
    /\ fut["root"].mode = "read" /\ fut["root"].orig = spawned[2].handle
    /\ fut["root"].status = "ready" /\ fut["root"].result.payload = 6

\* C21: task errors are memoized. A read that gets the error from
\* try_read_task_output completes in that poll with TaskError and the failure
\* cached with the task, without another hop and without scheduling the task;
\* the cached failure of a Done task stays as it is and the task is not
\* executed while it is Done, which it leaves only marked Dirty or requeued
\* with the dirty-on-completion flag; and of two reads of the same handle one
\* after the other that both fail, the second returns the cause of the first
\* unless the source has changed after the failure the first one returned.
C21_TaskErrorsMemoized ==
    [][/\ (fut["root"].status = "pending" /\ fut'["root"].status = "pending"
            /\ calls' # calls) => calls'.ret # "err"
       /\ (calls' # calls /\ calls'.ret = "err") =>
            /\ calls'.op = "try_read_task_output"
            /\ fut'["root"].status = "ready"
            /\ fut'["root"].result.tag = "TaskError"
            /\ fut'["root"].result.handle = output[calls'.task]
            /\ output[calls'.task].kind = "error"
            /\ fut'["root"].current = fut["root"].current
            /\ task_state' = task_state
       /\ \A t \in Tasks : (output[t].kind = "error" /\ task_state[t] = "Done") =>
            /\ output'[t] = output[t]
            /\ executing'[t] = executing[t]
            /\ task_state'[t] # "Done" =>
                    \/ task_state'[t] = "Dirty"
                    \/ dirty_flag[t] /\ task_state'[t] = "Scheduled"
       /\ (/\ fut'["root"].status = "ready"
           /\ fut'["root"].result.tag = "TaskError"
           /\ prev'.mode = "read" /\ prev'.result.tag = "TaskError"
           /\ prev'.orig = fut'["root"].orig
           /\ fut'["root"].result # prev'.result) =>
                   /\ prev'.result.handle = RejectError("X", prev'.result.handle.index - 1)
                   /\ src_gen' >= prev'.result.handle.index]_vars

\* C21 witness: scenario S6, two reads of E one after the other have returned
\* the same TaskError, the second without waiting for an execution
C21_Witness ==
    /\ prev.mode = "read" /\ prev.orig = TaskOutput("E")
    /\ prev.result.tag = "TaskError" /\ prev.result.handle = ErrorOutput("E")
    /\ fut["root"].mode = "read" /\ fut["root"].orig = TaskOutput("E")
    /\ fut["root"].status = "ready" /\ fut["root"].result = prev.result
    /\ ~calls.waited
    /\ task_state["E"] = "Done" /\ executing["E"] = 0

\* C26: the wait state of ReadRawVcFuture. For every pending read: a round
\* of poll that neither completes the read nor advances the handle leaves a
\* listener that is not notified stored in the future; while the stored
\* listener is not notified, nothing but its notification changes the
\* future, and the root makes no backend call; after the notification the
\* next round clears the listener and reads the same current handle again;
\* and the current handle and the strongly_consistent flag change only in a
\* round in which try_read_task_output returned a handle, which becomes the
\* current handle.
C26_WaitStateConsistent ==
    [][\A r \in Readers :
        LET f == fut[r]
            g == fut'[r]
        IN (f.mode \in {"read", "strong_read"} /\ f.status = "pending") =>
            /\ g.mode = f.mode /\ g.orig = f.orig /\ g.arg = f.arg
            /\ (g # f /\ g.status = "pending" /\ g.current = f.current
                    /\ f.listener # "waiting") => g.listener = "waiting"
            /\ (r = "root" /\ calls' # calls /\ calls'.ret = "listener") =>
                    g = [f EXCEPT !.listener = "waiting"]
            /\ f.listener = "waiting" =>
                    /\ g = f \/ g = [f EXCEPT !.listener = "notified"]
                    /\ r = "root" => calls' = calls
            /\ (f.listener = "notified" /\ g # f) =>
                    /\ g.listener \in {"none", "waiting"}
                    /\ g.listener = "waiting" => g.current = f.current
                    /\ r = "root" =>
                            /\ calls'.task = f.current.task
                            /\ calls'.op = IF f.current.kind = "TaskOutput"
                                           THEN "try_read_task_output"
                                           ELSE "try_read_task_cell"
            /\ (g.current # f.current \/ g.strongly_consistent # f.strongly_consistent) =>
                    /\ f.current.kind = "TaskOutput"
                    /\ try_read_task_output(f.current.task, f.strongly_consistent).ret = "ok"
                    /\ g.current = output[f.current.task]
                    /\ ~g.strongly_consistent
                    /\ g.status = "pending" /\ g.listener = "none"
                    /\ r = "root" =>
                            calls'.op = "try_read_task_output" /\ calls'.ret = "ok"]_vars

\* C26 witness: a read of the root has stored a listener on the output of C,
\* its second hop, was notified, read that output again and completed
C26_Witness ==
    /\ fut["root"].mode = "read" /\ fut["root"].orig = TaskOutput("F")
    /\ fut["root"].status = "ready" /\ fut["root"].result.tag = "content"
    /\ calls.waited /\ calls.oks >= 2

\* the read of the root is pending
RootPending ==
    fut["root"].mode \in {"read", "strong_read"} /\ fut["root"].status = "pending"

\* C27: a read eventually completes. The output chains of the handles the
\* root reads are finite and end at a TaskCell, the workers run every queued
\* task to its end and the future is polled again after a notification; if in
\* addition every listener the future stores is eventually notified, a
\* pending read eventually is Ready, with the content or an error.
C27_ReadCompletes ==
    ((RootPending /\ fut["root"].listener = "waiting")
            ~> (fut["root"].listener # "waiting"))
        => (RootPending ~> (fut["root"].status = "ready"
                                /\ fut["root"].result.tag # "none"))

\* C27 witness: a read of the chain of two outputs stored a listener, was
\* notified and polled again, and is Ready with the content
C27_Witness ==
    /\ fut["root"].mode \in {"read", "strong_read"}
    /\ fut["root"].orig = TaskOutput("F") /\ Terminal(TaskOutput("F")) = TaskCell("C", 0)
    /\ calls.waited
    /\ fut["root"].status = "ready" /\ fut["root"].result.tag = "content"
    /\ fut["root"].listener = "none"

(***************************************************************************)
(* Claims about the font options.                                          *)
(***************************************************************************)
\* the call has been made
Called == font_call.result.tag # "none"
\* the font family a request names: its import name, "_" replaced by " "
FamilyOf(request) ==
    [i \in DOMAIN request.import |->
        IF request.import[i] = "_" THEN " " ELSE request.import[i]]
\* the weights or styles a request gives
Requested(arg) == IF arg.some THEN Range(arg.value.list) ELSE {}
\* the entry of the font of the call
FontOfCall == font_call.data[FamilyOf(font_call.request)]
KnownFont == Called /\ FamilyOf(font_call.request) \in DOMAIN font_call.data

\* the call fails with this error
Fails(error) == font_call.result.tag = "Err" /\ font_call.result.error = error
\* the call gets past the weights, and if it returns Ok it returns these weights
Gives(weights) ==
    /\ ~Fails("Missing weight") /\ ~Fails("Unknown weight")
    /\ ~Fails("Unexpected variable in weight array")
    /\ font_call.result.tag = "Ok" =>
            /\ font_call.result.weights.kind = weights.kind
            /\ Range(font_call.result.weights.set) = Range(weights.set)

\* C22: the font family is the import name with "_" replaced by " ", and the
\* call fails with Unknown font when the font data has no such family;
\* otherwise no requested weight gives Variable if the font has the weight
\* "variable" and else Missing weight; "variable" requested with another
\* weight gives Unexpected variable; any other request gives Fixed of the
\* requested weights if the font has them all and else Unknown weight with a
\* requested weight the font does not have.
C22_WeightsDecided ==
    Called =>
        LET requested == Requested(font_call.request.weight) IN
        /\ font_call.result.tag = "Ok" =>
                font_call.result.font_family = FamilyOf(font_call.request)
        /\ ~KnownFont => Fails("Unknown font")
        /\ KnownFont =>
            LET available == Range(FontOfCall.weights) IN
            /\ ~Fails("Unknown font")
            /\ requested = {} =>
                    IF "variable" \in available THEN Gives(Variable)
                    ELSE Fails("Missing weight")
            /\ ("variable" \in requested /\ Cardinality(requested) > 1) =>
                    Fails("Unexpected variable in weight array")
            /\ (requested # {}
                    /\ ~("variable" \in requested /\ Cardinality(requested) > 1)) =>
                    IF requested \subseteq available
                    THEN Gives(Fixed(one_or_many(font_call.request.weight)))
                    ELSE /\ Fails("Unknown weight")
                         /\ font_call.result.what \in requested \ available

\* C28: the weights of an Ok result are weights of the font: a Fixed set is
\* a non-empty subset of the available weights, and Variable is returned
\* only for a font whose available weights contain "variable".
C28_WeightsSupported ==
    (Called /\ font_call.result.tag = "Ok") =>
        LET available == Range(FontOfCall.weights)
            weights == font_call.result.weights
        IN /\ weights.kind \in {"Fixed", "Variable"}
           /\ weights.kind = "Fixed" =>
                /\ weights.set # <<>>
                /\ Range(weights.set) \subseteq available
           /\ weights.kind = "Variable" => "variable" \in available

\* the styles the call checks: the requested styles, or the default
ResultingStyles ==
    IF Requested(font_call.request.style) # {}
    THEN Requested(font_call.request.style)
    ELSE IF Len(FontOfCall.styles) = 1 THEN {FontOfCall.styles[1]} ELSE {"normal"}

\* the call has got past the checks of the font and of the weights
WeightsPassed ==
    /\ KnownFont
    /\ ~Fails("Missing weight") /\ ~Fails("Unknown weight")
    /\ ~Fails("Unexpected variable in weight array")

\* C23: with no style requested the styles are the single style of a font
\* with exactly one style and "normal" otherwise; a call that got past the
\* weights fails with Unknown style and a style the font does not have exactly
\* when a requested or defaulted style is not a style of the font; and the
\* styles of an Ok result are exactly the requested styles or the one default.
C23_StylesDefaultedAndChecked ==
    WeightsPassed =>
        LET available == Range(FontOfCall.styles) IN
        /\ Fails("Unknown style") <=> ~(ResultingStyles \subseteq available)
        /\ Fails("Unknown style") => font_call.result.what \in ResultingStyles \ available
        /\ font_call.result.tag = "Ok" =>
                /\ Range(font_call.result.styles) = ResultingStyles
                /\ Len(font_call.result.styles) = Cardinality(ResultingStyles)

\* C23 witness: no style requested for a font whose only style is italic:
\* the call returned Ok with the style italic
C23_Witness ==
    /\ WeightsPassed
    /\ ~font_call.request.style.some
    /\ FontOfCall.styles = <<"italic">>
    /\ font_call.result.tag = "Ok"
    /\ font_call.result.styles = <<"italic">>

\* C24: display is the requested value or "optional", and the call fails
\* with Invalid display value unless it is auto, block, swap, fallback or
\* optional; it fails with Axes can only be defined for variable fonts
\* exactly when it got that far, the axes list is not empty and the weights
\* are not Variable; the checks run in the order font, weights, styles,
\* display, axes, and the result is the error of the first one that fails,
\* or Ok when none fails.
C24_ChecksInOrder ==
    Called =>
        LET request == font_call.request
            weights == weights_of(one_or_many(request.weight), FontOfCall,
                                  FamilyOf(request))
            display == IF request.display.some THEN request.display.value ELSE "optional"
            first_failing ==
                IF ~KnownFont THEN "Unknown font"
                ELSE IF weights.tag = "Err" THEN weights.error
                ELSE IF ~(ResultingStyles \subseteq Range(FontOfCall.styles))
                THEN "Unknown style"
                ELSE IF display \notin {"auto", "block", "swap", "fallback", "optional"}
                THEN "Invalid display value"
                ELSE IF request.axes.some /\ request.axes.value # <<>>
                        /\ weights.weights.kind # "Variable"
                THEN "Axes can only be defined for variable fonts"
                ELSE ""
        IN /\ first_failing # "" => Fails(first_failing)
           /\ first_failing = "" =>
                /\ font_call.result.tag = "Ok"
                /\ font_call.result.display = display
                /\ font_call.result.axes = request.axes

\* C24 witness: a call with a weight of the font, an unknown style, an
\* invalid display and axes has failed with Unknown style, the first of the
\* three checks that fail
C24_Witness ==
    /\ KnownFont
    /\ font_call.request.weight = Some(One("400"))
    /\ "400" \in Range(FontOfCall.weights)
    /\ font_call.request.style = Some(One("foo"))
    /\ font_call.request.display = Some("foo")
    /\ font_call.request.axes = Some(<<"wght">>)
    /\ Fails("Unknown style") /\ font_call.result.what = "foo"

(***************************************************************************)
(* Claims about the registry.                                              *)
(***************************************************************************)
\* C25: under every interleaving of register calls and lookups, every id in
\* the by-value map or in the by-name map has its (descriptor, name) entry in
\* the store, the entry of an id of the by-value map holding that
\* descriptor and the name of a call that registered it; get_thing and
\* get_thing_global_name on an id a lookup returned never panic; and the
\* descriptor registered under a name of the by-name map is in the by-value
\* map.
C25_LookupIdsAreStored ==
    [][/\ \A k \in Kinds :
            /\ \A v \in DOMAIN map_by_value'[k] :
                    /\ map_by_value'[k][v] \in DOMAIN store'[k]
                    /\ store'[k][map_by_value'[k][v]].value = v
                    /\ store'[k][map_by_value'[k][v]].name \in names_called'[k]
            /\ \A n \in DOMAIN map_by_name'[k] :
                    /\ map_by_name'[k][n] \in DOMAIN store'[k]
                    /\ store'[k][map_by_name'[k][n]].name = n
                    /\ store'[k][map_by_name'[k][n]].value \in DOMAIN map_by_value'[k]
       /\ (lookup' # lookup /\ lookup'.tag \in {"ok", "some"}) =>
                lookup'.id \in DOMAIN store'[lookup'.kind]
       /\ lookup'.op = "get_thing" => lookup'.tag = "ok"]_vars

\* C25 witness: a lookup by descriptor returned an id while the register
\* call that published it had not yet written the by-name map, and get_thing
\* on that id has returned
C25_Witness ==
    /\ lookup.op = "get_thing" /\ lookup.tag = "ok"
    /\ \E t \in Threads :
            /\ reg_pc[t] = "by_name"
            /\ reg_call[t].kind = lookup.kind
            /\ reg_call[t].new_id = lookup.id
            /\ reg_call[t].global_name \notin DOMAIN map_by_name[lookup.kind]

\* the ids under which the store of kind k holds descriptor v
IdsOf(k, v) == {i \in DOMAIN store[k] : store[k][i].value = v}

\* C5: for each registry kind, register calls with equal descriptors that run
\* concurrently yield the same ID: a descriptor never has more than one ID in
\* the store, and the ID a lookup returns for it never changes.
C5_ConcurrentSameId ==
    [][\A k \in Kinds, v \in Values :
          /\ Cardinality(IdsOf(k, v)') <= 1
          /\ get_thing_id(k, v).tag = "ok" => get_thing_id(k, v)' = get_thing_id(k, v)]_vars

\* C6: registration is idempotent: a register call for a descriptor that is
\* already present (under the same or another name) changes neither the
\* counter, nor the store, nor the by-value map, nor the by-name map.
C6_RegisterIdempotent ==
    [][\A k \in Kinds, n \in Names, v \in Values :
          (v \in DOMAIN map_by_value[k] /\ register_thing(k, n, v))
              => UNCHANGED reg_vars]_vars

\* C6 witness: a descriptor registered under one name was registered again
\* under another name
C6_Witness ==
    /\ lookup.op = "register" /\ lookup.tag = "again"
    /\ lookup.value \in DOMAIN map_by_value[lookup.kind]
    /\ first_name[lookup.kind][lookup.value] # lookup.name

\* C7 as stated: for every registered descriptor d with ID i, descriptor_of(i)
\* is d, name_of(i) is the name d was first registered under, and
\* id_by_name(name_of(i)) is i.
C7_LookupsConsistent ==
    \A k \in Kinds : \A d \in DOMAIN first_name[k] :
        /\ get_thing_id(k, d).tag = "ok"
        /\ LET i == get_thing_id(k, d).id IN
            /\ get_thing(k, i) = Ret("ok", d)
            /\ get_thing_global_name(k, i) = Ret("ok", first_name[k][d])
            /\ get_thing_id_by_global_name(k, first_name[k][d]) = Ret("some", i)

\* C7 as amended: descriptor_of(i) is d, name_of(i) is the name d was first
\* registered under, and id_by_name(name_of(i)) is the ID of the descriptor
\* registered last under that name: the greatest ID whose stored name is
\* name_of(i), which is i unless a later descriptor took the same name.
C7_LookupsConsistentLastName ==
    \A k \in Kinds : \A d \in DOMAIN first_name[k] :
        /\ get_thing_id(k, d).tag = "ok"
        /\ LET i == get_thing_id(k, d).id
               byName == get_thing_id_by_global_name(k, first_name[k][d])
           IN
            /\ get_thing(k, i) = Ret("ok", d)
            /\ get_thing_global_name(k, i) = Ret("ok", first_name[k][d])
            /\ byName.tag = "some"
            /\ get_thing_global_name(k, byName.id) = Ret("ok", first_name[k][d])
            /\ \A j \in DOMAIN store[k] :
                  store[k][j].name = first_name[k][d] => j <= byName.id

\* C7 witness: two descriptors of one kind are registered under the same name
C7_Witness ==
    \E k \in Kinds : \E d1, d2 \in DOMAIN map_by_value[k] :
        /\ d1 # d2
        /\ first_name[k][d1] = first_name[k][d2]
        /\ lookup.op = "register"

\* C8: the IDs in the store of each kind are exactly the values the counter
\* has handed out, FirstId .. next-1, without gaps, and every descriptor that
\* was registered has exactly one of them.
C8_IdsDense ==
    \A k \in Kinds :
        /\ DOMAIN store[k] = FirstId .. (id_factory[k] - 1)
        /\ \A v \in DOMAIN first_name[k] : Cardinality(IdsOf(k, v)) = 1
        /\ Cardinality(DOMAIN store[k]) = Cardinality(DOMAIN first_name[k])

\* C8 witness: a kind holds two descriptors and one of them was registered again
C8_Witness ==
    /\ Cardinality(DOMAIN store[lookup.kind]) >= 2
    /\ lookup.op = "register" /\ lookup.tag = "again"

\* C9: the id lookup of a descriptor no register call has named panics and
\* changes no registry state; the by-name lookup of a name no register call
\* has named returns None and changes no registry state.
C9_UnregisteredLookup ==
    [][/\ \A k \in Kinds, v \in Values :
            (v \notin DOMAIN first_name[k] /\ LookupId(k, v))
                => (lookup'.tag = "panic" /\ UNCHANGED reg_vars)
       /\ \A k \in Kinds, n \in Names :
            (n \notin names_called[k] /\ LookupIdByName(k, n))
                => (lookup'.tag = "none" /\ UNCHANGED reg_vars)]_vars

\* C9 witness: an id lookup of an unregistered descriptor has panicked while
\* another descriptor of that kind is registered
C9_Witness ==
    /\ lookup.op = "get_thing_id" /\ lookup.tag = "panic"
    /\ DOMAIN map_by_value[lookup.kind] # {}
    /\ lookup.value \notin DOMAIN first_name[lookup.kind]

====
